---- MODULE Spec2Model ----
(***************************************************************************)
(* A model of the JSON Toon Visualizer (frontend_react_app/src/App.js):    *)
(*   - hashStringToInt / intToHsl, the string hash and its colour,         *)
(*   - jsonToNodes, the capped depth-first walk of a parsed JSON value,    *)
(*     both as a function and as a step-by-step machine (one call frame    *)
(*     of walk per stack entry),                                           *)
(*   - ToonScene's placement of the handed nodes (seed, fill, size),    *)
(*   - the App component's state and its handlers.                         *)
(*                                                                         *)
(* JavaScript strings are TLA+ strings.  A TLA+ string literal cannot hold *)
(* U+2026 (horizontal ellipsis), so the one-character string Ellipsis      *)
(* stands for it everywhere; its char code is 8230.                        *)
(* JavaScript numbers used by the hash are records [neg, hi, lo] with the  *)
(* magnitude hi * 2^16 + lo, since they do not fit TLC's integers.         *)
(***************************************************************************)
EXTENDS Integers, Sequences, FiniteSets, TLC

VARIABLES
    \* ---- jsonToNodes / ToonScene, run on one input --------------------
    value,        \* the argument `value` of jsonToNodes
    maxNodes,     \* the argument `maxNodes` of jsonToNodes
    nodes,        \* the local array `nodes` of jsonToNodes
    origin,       \* for each entry of nodes, the position in `value` of the
                  \* walk call that pushed it (child indices from the root)
    stack,        \* the active calls of walk, innermost last
    result,       \* what jsonToNodes returned
    placed,       \* ToonScene's `placed`
    pc,           \* "walk", "layout", "done" ("idle" outside this machine)
    \* ---- App ----------------------------------------------------------
    jsonText, parseError, parsedValue, lastGoodTitle,   \* useState
    memoNodes,    \* the `nodes` memo of App
    handed,       \* the value App handed to jsonToNodes last (Undefined: none)
    mounted,      \* whether the mount effect has run
    lastHandler   \* the handler that ran last

sceneVars == <<value, maxNodes, nodes, origin, stack, result, placed, pc>>
appVars == <<jsonText, parseError, parsedValue, lastGoodTitle, memoNodes,
             handed, mounted, lastHandler>>
vars == <<value, maxNodes, nodes, origin, stack, result, placed, pc,
          jsonText, parseError, parsedValue, lastGoodTitle, memoNodes,
          handed, mounted, lastHandler>>

Min(a, b) == IF a < b THEN a ELSE b
Max(a, b) == IF a > b THEN a ELSE b

(***************************************************************************)
(* Strings                                                                 *)
(***************************************************************************)
Ellipsis == "~"

\* The ASCII characters 32..95 and 97..125 in code order.
AsciiLow == " !\"#$%&'()*+,-./0123456789:;<=>?@ABCDEFGHIJKLMNOPQRSTUVWXYZ[\\]^_"
AsciiHigh == "abcdefghijklmnopqrstuvwxyz{|}"

CharAt(s, i) == SubSeq(s, i, i)

\* str.charCodeAt(i - 1)
charCodeAt(s, i) ==
    LET c == CharAt(s, i)
    IN  IF c = Ellipsis THEN 8230
        ELSE IF c = "\n" THEN 10
        ELSE IF \E k \in 1..Len(AsciiLow) : CharAt(AsciiLow, k) = c
        THEN 31 + (CHOOSE k \in 1..Len(AsciiLow) : CharAt(AsciiLow, k) = c)
        ELSE 96 + (CHOOSE k \in 1..Len(AsciiHigh) : CharAt(AsciiHigh, k) = c)

\* a || b on strings: the empty string is falsy.
OrStr(a, b) == IF a # "" THEN a ELSE b

(***************************************************************************)
(* 32-bit arithmetic of the hash                                           *)
(***************************************************************************)
W16 == 2 ^ 16

RECURSIVE Xor16(_, _)
Xor16(a, b) ==
    IF a = 0 THEN b
    ELSE IF b = 0 THEN a
    ELSE (((a % 2) + (b % 2)) % 2) + 2 * Xor16(a \div 2, b \div 2)

\* ToInt32: the 32-bit pattern <<hi, lo>> of a number (two's complement).
ToInt32(n) ==
    IF ~n.neg THEN <<n.hi, n.lo>>
    ELSE IF n.lo = 0 THEN <<(W16 - n.hi) % W16, 0>>
    ELSE <<W16 - 1 - n.hi, W16 - n.lo>>

\* The number a 32-bit pattern denotes as a signed integer.
FromInt32(p) ==
    IF p[1] < W16 \div 2 THEN [neg |-> FALSE, hi |-> p[1], lo |-> p[2]]
    ELSE IF p[2] = 0 THEN [neg |-> TRUE, hi |-> W16 - p[1], lo |-> 0]
    ELSE [neg |-> TRUE, hi |-> W16 - 1 - p[1], lo |-> W16 - p[2]]

\* h ^ c for a char code c (0 <= c < 2^16): both sides go through ToInt32.
BitXor(h, c) ==
    LET p == ToInt32(h) IN FromInt32(<<p[1], Xor16(p[2], c)>>)

\* Math.imul(h, m): the low 32 bits of the product, read as signed.  The
\* halves of m are below 2^15 (true of 16777619), so no partial product
\* leaves TLC's integers.
MathImul(h, m) ==
    LET a == ToInt32(h)
        b == ToInt32(m)
        low == a[2] * b[2]
        mid == ((a[1] * b[2]) % W16) + ((a[2] * b[1]) % W16) + (low \div W16)
    IN  FromInt32(<<mid % W16, low % W16>>)

MathAbs(n) == [n EXCEPT !.neg = FALSE]

\* 2166136261 = 0x811C9DC5 and 16777619 = 0x01000193
FnvOffsetBasis == [neg |-> FALSE, hi |-> 33052, lo |-> 40389]
FnvPrime == [neg |-> FALSE, hi |-> 256, lo |-> 403]

RECURSIVE hashLoop(_, _, _)
hashLoop(str, i, h) ==
    IF i > Len(str) THEN h
    ELSE LET h2 == MathImul(BitXor(h, charCodeAt(str, i)), FnvPrime)
         IN  \* (the test makes TLC compute h2 before the next turn)
             IF h2.lo >= 0 THEN hashLoop(str, i + 1, h2) ELSE h2

hashStringToIntNoAbs(str) == hashLoop(str, 1, FnvOffsetBasis)

hashStringToInt(str) == MathAbs(hashLoop(str, 1, FnvOffsetBasis))

\* n % m for a non-negative number n and 0 < m < 2^15
NumMod(n, m) == (((n.hi % m) * (W16 % m)) + n.lo) % m

intToHsl(n, s, l) ==
    "hsl(" \o ToString(NumMod(n, 360)) \o " " \o ToString(s) \o "% "
           \o ToString(l) \o "%)"

(***************************************************************************)
(* Parsed JSON values.  An object lists its own keys in the order          *)
(* Object.keys enumerates them; the keys of one object are distinct.       *)
(***************************************************************************)
Obj(keys, vals) == [t |-> "object", keys |-> keys, vals |-> vals]
Arr(items) == [t |-> "array", items |-> items]
Str(s) == [t |-> "string", s |-> s]
Num(n) == [t |-> "number", n |-> n]
Bool(b) == [t |-> "boolean", b |-> b]
Null == [t |-> "null"]

\* Array.isArray(v) ? "array" : v === null ? "null" : typeof v
TypeOf(v) == v.t

\* The number of own keys of an object, or the length of an array.
Width(v) ==
    IF TypeOf(v) = "object" THEN Len(v.keys)
    ELSE IF TypeOf(v) = "array" THEN Len(v.items)
    ELSE 0

\* v[k] for the k-th enumerated key of an object, v[k - 1] for an array.
Child(v, k) == IF TypeOf(v) = "object" THEN v.vals[k] ELSE v.items[k]

\* String(v) of a number (the integers are the numbers of the model) or a
\* boolean.
NumToString(n) == IF n < 0 THEN "-" \o ToString(0 - n) ELSE ToString(n)
BoolToString(b) == IF b THEN "true" ELSE "false"

(***************************************************************************)
(* jsonToNodes: the nodes and their paths and labels                       *)
(***************************************************************************)
MaxDepth == 3
MaxChildren == 10
MaxSizeHint == 6
PreviewLen == 18
DefaultMaxNodes == 60

Node(keyPath, label, type, sizeHint) ==
    [keyPath |-> keyPath, label |-> label, type |-> type, sizeHint |-> sizeHint]

\* pushNode, with the node record already built
pushNode(ns, node) == Append(ns, node)

TruncatedNodeTight(path) ==
    Node(path, OrStr(path, "root") \o " (" \o Ellipsis \o ")", "truncated", 1)

\* The node walk pushes when depth > 3.
TruncatedNode(path) ==
    Node(path, OrStr(path, "root") \o " (" \o Ellipsis \o " )", "truncated", 1)

\* The node walk pushes for an object or an array before its children.
ContainerNode(v, path) ==
    Node(path, OrStr(path, "root"), TypeOf(v), Max(1, Min(MaxSizeHint, Width(v))))

\* The path walk gives the k-th child of a container.
ChildPath(v, path, k) ==
    IF TypeOf(v) = "object"
    THEN (IF path # "" THEN path \o "." \o v.keys[k] ELSE v.keys[k])
    ELSE OrStr(path, "root") \o "[" \o ToString(k - 1) \o "]"

\* The node walk pushes after the children of a container of more than 10.
MoreNode(v, path) ==
    Node(IF TypeOf(v) = "object"
           THEN (IF path # "" THEN path \o ".__more__" ELSE "__more__")
           ELSE OrStr(path, "root") \o ".__more__",
         "+" \o ToString(Width(v) - MaxChildren) \o " more", "more", 1)

\* The node walk pushes for a string, number, boolean or null.
LeafNode(v, path) ==
    LET t == TypeOf(v)
        lead == OrStr(path, "root") \o ": "
    IN  CASE t = "string" ->
               Node(path,
                    lead \o "\"" \o
                      (IF Len(v.s) > PreviewLen
                         THEN SubSeq(v.s, 1, PreviewLen) \o Ellipsis ELSE v.s)
                      \o "\"",
                    "string", 1)
          [] t = "number" -> Node(path, lead \o NumToString(v.n), "number", 1)
          [] t = "boolean" -> Node(path, lead \o BoolToString(v.b), "boolean", 1)
          [] t = "null" -> Node(path, lead \o "null", "null", 1)

IsContainer(v) == TypeOf(v) \in {"object", "array"}

CapReachedEarly(ns, cap) == Len(ns) + 1 >= cap

\* The test walk makes first: the cap is reached.
CapReached(ns, cap) == Len(ns) >= cap

TooDeepLate(depth) == depth > MaxDepth + 1

\* The test walk makes next: the depth cutoff.
TooDeep(depth) == depth > MaxDepth

VisitedAll(v) == Width(v)

\* How many children of a container walk visits (slice(0, 10)).
Visited(v) == Min(Width(v), MaxChildren)

\* Whether walk pushes a 'more' node after the children of v.
HasMore(v) == Width(v) > MaxChildren

(***************************************************************************)
(* jsonToNodes as a function: walk threads the array nodes through the     *)
(* calls, walkChildren is the forEach over the first 10 children.          *)
(***************************************************************************)
RECURSIVE walk(_, _, _, _, _)
RECURSIVE walkChildren(_, _, _, _, _, _)

walk(ns, cap, v, path, depth) ==
    IF CapReached(ns, cap) THEN ns
    ELSE IF TooDeep(depth) THEN pushNode(ns, TruncatedNode(path))
    ELSE IF IsContainer(v)
    THEN LET after == walkChildren(pushNode(ns, ContainerNode(v, path)),
                                   cap, v, path, depth, 1)
         IN  IF HasMore(v) THEN pushNode(after, MoreNode(v, path)) ELSE after
    ELSE pushNode(ns, LeafNode(v, path))

walkChildren(ns, cap, v, path, depth, k) ==
    IF k > Visited(v) THEN ns
    ELSE walkChildren(walk(ns, cap, Child(v, k), ChildPath(v, path, k), depth + 1),
                      cap, v, path, depth, k + 1)

SliceNothing(ns, cap) == ns

\* nodes.slice(0, maxNodes)
Slice(ns, cap) == SubSeq(ns, 1, Min(Len(ns), cap))

jsonToNodes(v, cap) == Slice(walk(<<>>, cap, v, "", 0), cap)

(***************************************************************************)
(* ToonScene: what the layout derives from a node and its index i (from    *)
(* 0).  The coordinates x and y are real-valued (cos, sin) and are left    *)
(* out; seed, fill, size and the render-time wobble are integers/strings.  *)
(***************************************************************************)
SeedKey(n, i) == OrStr(OrStr(n.keyPath, n.label), ToString(i))

SizeBase(type) ==
    IF type = "object" THEN 64
    ELSE IF type = "array" THEN 58
    ELSE IF type = "string" THEN 44
    ELSE 42

PlaceNode(n, i) ==
    LET seed == hashStringToInt(SeedKey(n, i))
    IN  [keyPath |-> n.keyPath, label |-> n.label, type |-> n.type,
         sizeHint |-> n.sizeHint,
         seed |-> seed,
         fill |-> IF n.type = "object" THEN "var(--accent-primary)"
                  ELSE IF n.type = "array" THEN "var(--accent-success)"
                  ELSE intToHsl(seed, 78, 56),
         size |-> SizeBase(n.type) + Min(30, n.sizeHint * 6),
         wobble |-> NumMod(seed, 11) - 5]

(***************************************************************************)
(* The inputs jsonToNodes is run on                                        *)
(***************************************************************************)
MaxWidth == 15      \* widest container among the inputs
MaxNest == 5        \* deepest wrapping among the inputs
MaxCap == 13        \* maxNodes ranges over 0..MaxCap and the default 60

KeyName(i) == "k" \o ToString(i)
WideObj(n, c) == Obj([i \in 1..n |-> KeyName(i)], [i \in 1..n |-> c])
WideArr(n, c) == Arr([i \in 1..n |-> c])

RECURSIVE NestObj(_, _)
NestObj(d, inner) == IF d = 0 THEN inner ELSE Obj(<<"n">>, <<NestObj(d - 1, inner)>>)

RECURSIVE NestArr(_, _)
NestArr(d, inner) == IF d = 0 THEN inner ELSE Arr(<<NestArr(d - 1, inner)>>)

\* JSON.parse(EXAMPLE)
ExampleValue ==
    Obj(<<"character", "scene">>,
        << Obj(<<"name", "mood", "stats", "inventory">>,
               << Str("Captain JSON"), Str("curious"),
                  Obj(<<"level", "hp", "mana">>, <<Num(7), Num(42), Num(13)>>),
                  Arr(<<Str("key"), Str("map"), Str("cookie")>>) >>),
           Obj(<<"location", "weather", "flags">>,
               << Str("Neo Schema City"), Str("sunny"),
                  Arr(<<Bool(TRUE), Bool(FALSE), Bool(TRUE)>>) >>) >>)

Scalars ==
    {Num(7), Num(-3), Str("hi"), Str("abcdefghijklmnopqrstuvwxy"), Bool(FALSE), Null}

\* Objects whose keys hold '.', '[', ']', are empty, or are '__more__'/'root'.
OddKeyInputs ==
    { Obj(<<"a", "a.b">>, <<Obj(<<"b">>, <<Num(1)>>), Num(2)>>),
      Obj(<<"">>, <<Num(1)>>),
      Obj(<<"a", "a[0]">>, <<Arr(<<Num(1)>>), Num(2)>>),
      Obj(<<"root", "__more__">>, <<Null, Str("x")>>),
      Arr(<<Obj(<<"", "x.y">>, <<Bool(TRUE), Null>>)>>) }

SceneInputs ==
    Scalars
    \cup {WideObj(n, Num(1)) : n \in 0..MaxWidth}
    \cup {WideArr(n, Null) : n \in 0..MaxWidth}
    \cup {NestObj(d, c) : d \in 1..MaxNest,
                          c \in {Str("x"), WideObj(11, Num(0)), WideArr(12, Arr(<<>>))}}
    \cup {NestArr(d, c) : d \in 1..MaxNest, c \in {Null, WideObj(2, Str("y"))}}
    \cup {WideObj(n, WideArr(m, Bool(TRUE))) : n \in {2, 11}, m \in {0, 3, 11}}
    \cup OddKeyInputs
    \cup {ExampleValue}

Caps == 0..MaxCap \cup {DefaultMaxNodes}

(***************************************************************************)
(* JavaScript values of the App: the JSON values, and undefined.  The      *)
(* state parseError is null or a string value.                             *)
(***************************************************************************)
Undefined == [t |-> "undefined"]

\* if (x), !x, x && ...: the truthiness of a value
Truthy(v) ==
    CASE TypeOf(v) \in {"null", "undefined"} -> FALSE
      [] TypeOf(v) = "string" -> v.s # ""
      [] TypeOf(v) = "number" -> v.n # 0
      [] TypeOf(v) = "boolean" -> v.b
      [] OTHER -> TRUE

\* v.key and v?.key: undefined when v is null or undefined (?. only) or has
\* no such property (no string, number, boolean or array of the model has a
\* property named character, name or title).
Get(v, key) ==
    IF TypeOf(v) = "object" /\ \E k \in 1..Len(v.keys) : v.keys[k] = key
    THEN v.vals[CHOOSE k \in 1..Len(v.keys) : v.keys[k] = key]
    ELSE Undefined

\* String(v)
RECURSIVE JsString(_)
RECURSIVE JoinItems(_, _)
JsString(v) ==
    CASE TypeOf(v) = "string" -> v.s
      [] TypeOf(v) = "number" -> NumToString(v.n)
      [] TypeOf(v) = "boolean" -> BoolToString(v.b)
      [] TypeOf(v) = "null" -> "null"
      [] TypeOf(v) = "undefined" -> "undefined"
      [] TypeOf(v) = "object" -> "[object Object]"
      [] TypeOf(v) = "array" -> JoinItems(v.items, 1)

JoinItems(items, k) ==
    IF k > Len(items) THEN ""
    ELSE (IF k > 1 THEN "," ELSE "")
         \o (IF TypeOf(items[k]) \in {"null", "undefined"} THEN "" ELSE JsString(items[k]))
         \o JoinItems(items, k + 1)

(***************************************************************************)
(* JSON.stringify(value, null, 2) and JSON.parse                           *)
(***************************************************************************)
RECURSIVE Spaces(_)
Spaces(n) == IF n = 0 THEN "" ELSE " " \o Spaces(n - 1)

RECURSIVE Stringify(_, _)
RECURSIVE StringifyMembers(_, _, _)

\* The text of v, its members indented by ind + 2 spaces.
Stringify(v, ind) ==
    CASE TypeOf(v) = "string" -> "\"" \o v.s \o "\""
      [] TypeOf(v) = "number" -> NumToString(v.n)
      [] TypeOf(v) = "boolean" -> BoolToString(v.b)
      [] TypeOf(v) = "null" -> "null"
      [] TypeOf(v) = "object" ->
           IF Width(v) = 0 THEN "{}"
           ELSE "{\n" \o StringifyMembers(v, ind + 2, 1) \o "\n" \o Spaces(ind) \o "}"
      [] TypeOf(v) = "array" ->
           IF Width(v) = 0 THEN "[]"
           ELSE "[\n" \o StringifyMembers(v, ind + 2, 1) \o "\n" \o Spaces(ind) \o "]"

StringifyMembers(v, ind, k) ==
    IF k > Width(v) THEN ""
    ELSE (IF k > 1 THEN ",\n" ELSE "")
         \o Spaces(ind)
         \o (IF TypeOf(v) = "object" THEN "\"" \o v.keys[k] \o "\": " ELSE "")
         \o Stringify(Child(v, k), ind)
         \o StringifyMembers(v, ind, k + 1)

JSONstringify(v) == Stringify(v, 0)

EXAMPLE ==
    "{\n  \"character\": {\n    \"name\": \"Captain JSON\",\n    \"mood\": \"curious\",\n"
    \o "    \"stats\": { \"level\": 7, \"hp\": 42, \"mana\": 13 },\n"
    \o "    \"inventory\": [\"key\", \"map\", \"cookie\"]\n  },\n"
    \o "  \"scene\": {\n    \"location\": \"Neo Schema City\",\n    \"weather\": \"sunny\",\n"
    \o "    \"flags\": [true, false, true]\n  }\n}"

\* The JSON texts the user types (besides the formatted ones), each with
\* the value JSON.parse gives it.
TypedTexts ==
    << <<EXAMPLE, ExampleValue>>,
       <<"42", Num(42)>>,
       <<"0", Num(0)>>,
       <<"\"hi\"", Str("hi")>>,
       <<"true", Bool(TRUE)>>,
       <<"null", Null>>,
       <<"[]", Arr(<<>>)>>,
       <<"{}", Obj(<<>>, <<>>)>>,
       <<"[1,[null]]", Arr(<<Num(1), Arr(<<Null>>)>>)>>,
       <<"{\"name\":\"Ava\",\"items\":[1,2,3]}",
         Obj(<<"name", "items">>, <<Str("Ava"), Arr(<<Num(1), Num(2), Num(3)>>)>>)>>,
       <<"{\"character\":\"x\",\"name\":0,\"title\":[7,null]}",
         Obj(<<"character", "name", "title">>,
             <<Str("x"), Num(0), Arr(<<Num(7), Null>>)>>)>>,
       <<"{\"character\":{\"name\":\"\"},\"name\":true}",
         Obj(<<"character", "name">>, <<Obj(<<"name">>, <<Str("")>>), Bool(TRUE)>>)>> >>

\* Texts that are not JSON, each with the message of the SyntaxError.
MalformedTexts ==
    << <<"", "Unexpected end of JSON input">>,
       <<"{", "Unexpected end of JSON input">>,
       <<"{\"a\":}", "Unexpected token } in JSON at position 5">>,
       <<"[1,2", "Unexpected end of JSON input">> >>

TypedValues == {TypedTexts[k][2] : k \in 1..Len(TypedTexts)}

\* Every text the textarea holds in the model.
Texts ==
    {TypedTexts[k][1] : k \in 1..Len(TypedTexts)}
    \cup {MalformedTexts[k][1] : k \in 1..Len(MalformedTexts)}
    \cup {JSONstringify(v) : v \in TypedValues}

\* JSON.parse on the texts of the model: the value a text is the JSON of.
IsJson(text) ==
    \/ \E k \in 1..Len(TypedTexts) : TypedTexts[k][1] = text
    \/ \E v \in TypedValues : JSONstringify(v) = text

JSONparse(text) ==
    IF \E k \in 1..Len(TypedTexts) : TypedTexts[k][1] = text
    THEN TypedTexts[CHOOSE k \in 1..Len(TypedTexts) : TypedTexts[k][1] = text][2]
    ELSE CHOOSE v \in TypedValues : JSONstringify(v) = text

SyntaxErrorMessage(text) ==
    MalformedTexts[CHOOSE k \in 1..Len(MalformedTexts) : MalformedTexts[k][1] = text][2]

safeJsonParse(text) ==
    IF IsJson(text)
    THEN [value |-> JSONparse(text), error |-> Null]
    ELSE [value |-> Null, error |-> Str(SyntaxErrorMessage(text))]

(***************************************************************************)
(* App                                                                     *)
(***************************************************************************)
RootTypeMessage ==
    "Root JSON value should be an object or array for a meaningful visualization."

\* The root types handleVisualize lets through.
RootAccepted(rootType) == rootType = "object" \/ rootType = "array"

\* The nodes memo, recomputed when parsedValue is set to pv.
NodesMemo(pv) == IF ~Truthy(pv) THEN <<>> ELSE jsonToNodes(pv, DefaultMaxNodes)

\* The argument of jsonToNodes in that recomputation, if it is called.
HandedBy(pv, before) == IF ~Truthy(pv) THEN before ELSE pv

\* The title handleVisualize derives from the value.
SceneTitle(v) ==
    IF Truthy(v) /\ TypeOf(v) = "object"
    THEN IF Truthy(Get(Get(v, "character"), "name"))
         THEN JsString(Get(Get(v, "character"), "name"))
         ELSE IF Truthy(Get(v, "name")) THEN JsString(Get(v, "name"))
         ELSE IF Truthy(Get(v, "title")) THEN JsString(Get(v, "title"))
         ELSE "Custom JSON"
    ELSE "Custom JSON"

SceneIdle ==
    /\ value = Null /\ maxNodes = 0 /\ nodes = <<>> /\ origin = <<>>
    /\ stack = <<>> /\ result = <<>> /\ placed = <<>> /\ pc = "idle"

\* The state of App after its first render (useState).
InitApp ==
    /\ jsonText = EXAMPLE
    /\ parseError = Null
    /\ parsedValue = Null
    /\ lastGoodTitle = "Example JSON"
    /\ memoNodes = <<>>
    /\ handed = Undefined
    /\ mounted = FALSE
    /\ lastHandler = "none"
    /\ SceneIdle

\* useEffect(..., []): parse on load
MountEffect ==
    /\ pc = "idle" /\ ~mounted
    /\ LET r == safeJsonParse(jsonText)
       IN  IF Truthy(r.error)
           THEN /\ parseError' = r.error
                /\ parsedValue' = Null
           ELSE /\ parseError' = Null
                /\ parsedValue' = r.value
    /\ memoNodes' = NodesMemo(parsedValue')
    /\ handed' = HandedBy(parsedValue', handed)
    /\ mounted' = TRUE
    /\ lastHandler' = "mount"
    /\ UNCHANGED <<jsonText, lastGoodTitle>>
    /\ UNCHANGED sceneVars

\* onChange of the textarea
EditText ==
    /\ pc = "idle" /\ mounted
    /\ \E t \in Texts : jsonText' = t
    /\ lastHandler' = "edit"
    /\ UNCHANGED <<parseError, parsedValue, lastGoodTitle, memoNodes, handed, mounted>>
    /\ UNCHANGED sceneVars

handleVisualizeUnguarded ==
    /\ pc = "idle" /\ mounted
    /\ LET r == safeJsonParse(jsonText)
       IN  IF Truthy(r.error)
           THEN /\ parseError' = r.error
                /\ parsedValue' = Null
                /\ UNCHANGED lastGoodTitle
           ELSE /\ parseError' = Null
                /\ parsedValue' = r.value
                /\ lastGoodTitle' = SceneTitle(r.value)
    /\ memoNodes' = NodesMemo(parsedValue')
    /\ handed' = HandedBy(parsedValue', handed)
    /\ lastHandler' = "visualize"
    /\ UNCHANGED <<jsonText, mounted>>
    /\ UNCHANGED sceneVars

handleVisualizeKeepsValue ==
    /\ pc = "idle" /\ mounted
    /\ LET r == safeJsonParse(jsonText)
       IN  IF Truthy(r.error)
           THEN /\ parseError' = r.error
                /\ UNCHANGED <<parsedValue, lastGoodTitle>>
           ELSE IF ~RootAccepted(TypeOf(r.value))
           THEN /\ parseError' = Str(RootTypeMessage)
                /\ UNCHANGED <<parsedValue, lastGoodTitle>>
           ELSE /\ parseError' = Null
                /\ parsedValue' = r.value
                /\ lastGoodTitle' = SceneTitle(r.value)
    /\ memoNodes' = NodesMemo(parsedValue')
    /\ handed' = HandedBy(parsedValue', handed)
    /\ lastHandler' = "visualize"
    /\ UNCHANGED <<jsonText, mounted>>
    /\ UNCHANGED sceneVars

handleVisualize ==
    /\ pc = "idle" /\ mounted
    /\ LET r == safeJsonParse(jsonText)
       IN  IF Truthy(r.error)
           THEN /\ parseError' = r.error
                /\ parsedValue' = Null
                /\ UNCHANGED lastGoodTitle
           ELSE IF ~RootAccepted(TypeOf(r.value))
           THEN /\ parseError' = Str(RootTypeMessage)
                /\ parsedValue' = Null
                /\ UNCHANGED lastGoodTitle
           ELSE /\ parseError' = Null
                /\ parsedValue' = r.value
                /\ lastGoodTitle' = SceneTitle(r.value)
    /\ memoNodes' = NodesMemo(parsedValue')
    /\ handed' = HandedBy(parsedValue', handed)
    /\ lastHandler' = "visualize"
    /\ UNCHANGED <<jsonText, mounted>>
    /\ UNCHANGED sceneVars

handleFormat ==
    /\ pc = "idle" /\ mounted
    /\ LET r == safeJsonParse(jsonText)
       IN  IF Truthy(r.error)
           THEN /\ parseError' = r.error
                /\ UNCHANGED jsonText
           ELSE /\ parseError' = Null
                /\ jsonText' = JSONstringify(r.value)
    /\ lastHandler' = "format"
    /\ UNCHANGED <<parsedValue, lastGoodTitle, memoNodes, handed, mounted>>
    /\ UNCHANGED sceneVars

handleLoadExample ==
    /\ pc = "idle" /\ mounted
    /\ jsonText' = EXAMPLE
    /\ parseError' = Null
    /\ parsedValue' = safeJsonParse(EXAMPLE).value
    /\ lastGoodTitle' = "Example JSON"
    /\ memoNodes' = NodesMemo(parsedValue')
    /\ handed' = HandedBy(parsedValue', handed)
    /\ lastHandler' = "loadExample"
    /\ UNCHANGED mounted
    /\ UNCHANGED sceneVars

handleClear ==
    /\ pc = "idle" /\ mounted
    /\ jsonText' = ""
    /\ parseError' = Null
    /\ parsedValue' = Null
    /\ lastGoodTitle' = "Custom JSON"
    /\ memoNodes' = NodesMemo(parsedValue')
    /\ handed' = HandedBy(parsedValue', handed)
    /\ lastHandler' = "clear"
    /\ UNCHANGED mounted
    /\ UNCHANGED sceneVars

(***************************************************************************)
(* jsonToNodes step by step.  A frame is one call of walk: k = 0 before    *)
(* its body has run, afterwards the index of the next child the forEach    *)
(* will visit.  addr is the position of v in the input.                    *)
(***************************************************************************)
Frame(v, path, depth, addr) ==
    [v |-> v, path |-> path, depth |-> depth, addr |-> addr, k |-> 0]

Top == stack[Len(stack)]
Pop == SubSeq(stack, 1, Len(stack) - 1)

AppIdle ==
    /\ jsonText = "" /\ parseError = Null /\ parsedValue = Null
    /\ lastGoodTitle = "" /\ memoNodes = <<>> /\ handed = Undefined
    /\ mounted = FALSE /\ lastHandler = "idle"

InitScene ==
    /\ value \in SceneInputs
    /\ maxNodes \in Caps
    /\ nodes = <<>>
    /\ origin = <<>>
    /\ stack = <<Frame(value, "", 0, <<>>)>>
    /\ result = <<>>
    /\ placed = <<>>
    /\ pc = "walk"
    /\ AppIdle

\* A call of walk up to its first child (or to its return).
WalkEnter ==
    /\ pc = "walk" /\ stack # <<>> /\ Top.k = 0
    /\ IF CapReached(nodes, maxNodes)
       THEN /\ stack' = Pop
            /\ UNCHANGED <<nodes, origin>>
       ELSE IF TooDeep(Top.depth)
       THEN /\ nodes' = pushNode(nodes, TruncatedNode(Top.path))
            /\ origin' = Append(origin, Top.addr)
            /\ stack' = Pop
       ELSE IF IsContainer(Top.v)
       THEN /\ nodes' = pushNode(nodes, ContainerNode(Top.v, Top.path))
            /\ origin' = Append(origin, Top.addr)
            /\ stack' = [stack EXCEPT ![Len(stack)].k = 1]
       ELSE /\ nodes' = pushNode(nodes, LeafNode(Top.v, Top.path))
            /\ origin' = Append(origin, Top.addr)
            /\ stack' = Pop
    /\ UNCHANGED <<value, maxNodes, result, placed, pc>>
    /\ UNCHANGED appVars

\* One turn of the forEach: the call of walk on the next child.
WalkChild ==
    /\ pc = "walk" /\ stack # <<>> /\ Top.k >= 1 /\ Top.k <= Visited(Top.v)
    /\ stack' = Append([stack EXCEPT ![Len(stack)].k = Top.k + 1],
                       Frame(Child(Top.v, Top.k),
                             ChildPath(Top.v, Top.path, Top.k),
                             Top.depth + 1,
                             Append(Top.addr, Top.k)))
    /\ UNCHANGED <<value, maxNodes, nodes, origin, result, placed, pc>>
    /\ UNCHANGED appVars

\* After the forEach: the 'more' node, and the return of the call.
WalkLeave ==
    /\ pc = "walk" /\ stack # <<>> /\ Top.k > Visited(Top.v)
    /\ IF HasMore(Top.v)
       THEN /\ nodes' = pushNode(nodes, MoreNode(Top.v, Top.path))
            /\ origin' = Append(origin, Top.addr)
       ELSE UNCHANGED <<nodes, origin>>
    /\ stack' = Pop
    /\ UNCHANGED <<value, maxNodes, result, placed, pc>>
    /\ UNCHANGED appVars

\* return nodes.slice(0, maxNodes)
Return ==
    /\ pc = "walk" /\ stack = <<>>
    /\ result' = Slice(nodes, maxNodes)
    /\ pc' = "layout"
    /\ UNCHANGED <<value, maxNodes, nodes, origin, stack, placed>>
    /\ UNCHANGED appVars

\* ToonScene's nodes.map
Place ==
    /\ pc = "layout"
    /\ placed' = [i \in 1..Len(result) |-> PlaceNode(result[i], i - 1)]
    /\ pc' = "done"
    /\ UNCHANGED <<value, maxNodes, nodes, origin, stack, result>>
    /\ UNCHANGED appVars

Init == InitScene \/ InitApp

Next ==
    \/ WalkEnter
    \/ WalkChild
    \/ WalkLeave
    \/ Return
    \/ Place
    \/ MountEffect
    \/ EditText
    \/ handleVisualize
    \/ handleFormat
    \/ handleLoadExample
    \/ handleClear

Spec == Init /\ [][Next]_vars

(***************************************************************************)
(* Definitions the properties below are stated with                        *)
(***************************************************************************)
\* jsonToNodes has returned.
Returned == pc \in {"layout", "done"}

\* The walk never found the cap reached: every call of walk ran its body.
CapNotReached == Len(nodes) < maxNodes

\* The value at a position of the input.
RECURSIVE ValueAt(_, _)
ValueAt(v, addr) ==
    IF addr = <<>> THEN v ELSE ValueAt(Child(v, Head(addr)), Tail(addr))

IsPrefix(a, b) == Len(a) <= Len(b) /\ SubSeq(b, 1, Len(a)) = a

\* A cap no walk of v can reach: more than one node per value of v and one
\* 'more' node per container.
RECURSIVE TreeBound(_)
RECURSIVE TreeBoundFrom(_, _)
TreeBound(v) == 2 + TreeBoundFrom(v, 1)
TreeBoundFrom(v, k) ==
    IF k > Width(v) THEN 0 ELSE TreeBound(Child(v, k)) + TreeBoundFrom(v, k + 1)

\* The uncapped depth-first pre-order extraction of v.
Uncapped(v) == jsonToNodes(v, TreeBound(v))

\* The 32-bit unsigned FNV-1a hash of a string, as <<high, low>> 16-bit
\* halves: from 2166136261, for each character XOR its code, then multiply
\* by 16777619 modulo 2^32.
RECURSIVE Fnv1a32From(_, _, _)
Fnv1a32From(str, i, u) ==
    IF i > Len(str) THEN u
    ELSE LET x == Xor16(u[2], charCodeAt(str, i))
             lowp == x * 403
             u2 == <<(u[1] * 403 + ((x * 256) % W16) + (lowp \div W16)) % W16,
                     lowp % W16>>
         IN  IF u2[2] >= 0 THEN Fnv1a32From(str, i + 1, u2) ELSE u2

Fnv1a32(str) == Fnv1a32From(str, 1, <<33052, 40389>>)

\* The key string of the node at index i (from 0).
KeyString(n, i) ==
    IF n.keyPath # "" THEN n.keyPath ELSE IF n.label # "" THEN n.label ELSE ToString(i)

\* 2^32 - u for 0 < u < 2^32, in halves
Negated32(u) ==
    IF u[2] = 0 THEN <<W16 - u[1], 0>> ELSE <<W16 - 1 - u[1], W16 - u[2]>>

(***************************************************************************)
(* C1: for every JSON value and every maxNodes >= 0, the sequence          *)
(* jsonToNodes returns has at most maxNodes entries.                       *)
(***************************************************************************)
C1_LengthAtMostMaxNodes == Returned => Len(result) <= maxNodes

\* A return where the walk had pushed more than maxNodes nodes.
C1_Witness ==
    /\ Returned /\ maxNodes >= 1
    /\ Len(nodes) > maxNodes /\ Len(result) = maxNodes

(***************************************************************************)
(* C2: the cap is enforced during traversal: at every step of the walk     *)
(* the accumulated node list has at most maxNodes entries, and once the    *)
(* count has reached maxNodes no further node is pushed.                   *)
(***************************************************************************)
C2_CapHeldDuringWalk == Len(nodes) <= maxNodes

(***************************************************************************)
(* C3: in the returned sequence no two nodes whose type is not 'more'      *)
(* have the same keyPath, and only the root node has the keyPath "".       *)
(***************************************************************************)
C3_PathsUnique ==
    Returned =>
        /\ \A i, j \in 1..Len(result) :
              (i < j /\ result[i].type # "more" /\ result[j].type # "more")
                  => result[i].keyPath # result[j].keyPath
        /\ \A i \in 2..Len(result) : result[i].keyPath # ""

(***************************************************************************)
(* C4: the value App hands to jsonToNodes is always an object or an array; *)
(* a root that parses to a string, number, boolean or null is rejected by  *)
(* Visualize with the fixed message and leaves no parsed value.            *)
(***************************************************************************)
C4_OnlyContainersExtracted ==
    /\ handed # Undefined => TypeOf(handed) \in {"object", "array"}
    /\ Truthy(parsedValue) => TypeOf(parsedValue) \in {"object", "array"}
    /\ (/\ lastHandler = "visualize"
        /\ IsJson(jsonText)
        /\ TypeOf(JSONparse(jsonText)) \in {"string", "number", "boolean", "null"})
          => /\ parseError = Str(RootTypeMessage)
             /\ parsedValue = Null
             /\ memoNodes = <<>>

\* Visualize has just rejected the text 42 while an earlier value had been
\* extracted.
C4_Witness ==
    /\ lastHandler = "visualize" /\ jsonText = "42"
    /\ parseError = Str(RootTypeMessage)
    /\ handed = ExampleValue

(***************************************************************************)
(* C5: width cutoff.  When the cap is not reached, for every object or     *)
(* array node (depth <= 3) with n children, exactly the first min(n, 10)   *)
(* children are walked, in their enumeration order; if n > 10 exactly one  *)
(* 'more' node follows all nodes of the walked children, with the label    *)
(* "+<n-10> more"; if n <= 10 the container has no 'more' node.            *)
(***************************************************************************)
C5_WidthCutoff ==
    (Returned /\ CapNotReached) =>
        \A p \in 1..Len(result) :
            result[p].type \in {"object", "array"} =>
                LET A == origin[p]
                    n == Width(ValueAt(value, A))
                    under(i) == {q \in 1..Len(result) : IsPrefix(Append(A, i), origin[q])}
                    mores == {q \in 1..Len(result) :
                                 result[q].type = "more" /\ origin[q] = A}
                IN  /\ Len(A) <= 3
                    /\ {i \in 1..n : under(i) # {}} = 1..(IF n < 10 THEN n ELSE 10)
                    /\ \A i \in 1..n : \A q \in under(i) :
                          /\ q > p
                          /\ \A j \in 1..n : \A r \in under(j) : i < j => q < r
                    /\ IF n > 10
                       THEN \E m \in 1..Len(result) :
                               /\ mores = {m}
                               /\ result[m].label = "+" \o ToString(n - 10) \o " more"
                               /\ \A i \in 1..n : \A q \in under(i) : q < m
                       ELSE mores = {}

\* An object of 15 keys, extracted with the default cap: 10 children and
\* "+5 more".
C5_Witness ==
    /\ Returned /\ maxNodes = 60 /\ value = WideObj(15, Num(1))
    /\ Len(result) = 12
    /\ result[12].type = "more" /\ result[12].label = "+5 more"

C7_SeedIsUnsignedFnv ==
    pc = "done" =>
        \A i \in 1..Len(placed) :
            LET u == Fnv1a32(KeyString(result[i], i - 1))
            IN  placed[i].seed = [neg |-> FALSE, hi |-> u[1], lo |-> u[2]]

(***************************************************************************)
(* C7 as amended: the seed of every placed node is the absolute value of   *)
(* the FNV-1a hash of its key string read as a signed 32-bit integer: the  *)
(* unsigned hash u when u < 2^31, and 2^32 - u otherwise; it is an integer *)
(* in 0..2^31.                                                             *)
(***************************************************************************)
C7_SeedIsAbsOfSignedFnv ==
    pc = "done" =>
        \A i \in 1..Len(placed) :
            LET u == Fnv1a32(KeyString(result[i], i - 1))
                a == IF u[1] < W16 \div 2 THEN u ELSE Negated32(u)
            IN  /\ placed[i].seed = [neg |-> FALSE, hi |-> a[1], lo |-> a[2]]
                /\ \/ placed[i].seed.hi < W16 \div 2
                   \/ placed[i].seed.hi = W16 \div 2 /\ placed[i].seed.lo = 0

\* A placed node whose unsigned hash has its top bit set.
C7_Witness ==
    /\ pc = "done"
    /\ \E i \in 1..Len(placed) :
          Fnv1a32(KeyString(result[i], i - 1))[1] >= W16 \div 2

(***************************************************************************)
(* C8 as stated: the label of every 'truncated' node is its path (or       *)
(* "root") followed by a space, "(", the ellipsis and ")".                 *)
(***************************************************************************)
C8_TruncatedLabelTight ==
    Returned =>
        \A i \in 1..Len(result) :
            result[i].type = "truncated" =>
                result[i].label =
                    (IF result[i].keyPath # "" THEN result[i].keyPath ELSE "root")
                    \o " (" \o Ellipsis \o ")"

(***************************************************************************)
(* C8 as amended: the label of every 'truncated' node is its path (or      *)
(* "root") followed by a space, "(", the ellipsis, a space and ")".        *)
(***************************************************************************)
C8_TruncatedLabelSpaced ==
    Returned =>
        \A i \in 1..Len(result) :
            result[i].type = "truncated" =>
                result[i].label =
                    (IF result[i].keyPath # "" THEN result[i].keyPath ELSE "root")
                    \o " (" \o Ellipsis \o " )"

\* A 'truncated' node was returned.
C8_Witness ==
    /\ Returned
    /\ \E i \in 1..Len(result) :
          result[i].type = "truncated" /\ result[i].keyPath = "n.n.n.n"

(***************************************************************************)
(* C9: capping only cuts the tail: jsonToNodes(v, maxNodes) is the first   *)
(* min(maxNodes, L) nodes of the uncapped extraction of v (L its length),  *)
(* and the result for a smaller cap is a prefix of the result for a larger *)
(* one.                                                                    *)
(***************************************************************************)
C9_CapCutsTheTail ==
    Returned =>
        LET U == Uncapped(value)
        IN  /\ result = SubSeq(U, 1, IF maxNodes < Len(U) THEN maxNodes ELSE Len(U))
            /\ \A m \in 0..maxNodes :
                  m \in Caps => IsPrefix(jsonToNodes(value, m), result)

\* A return where nodes pushed after the cap was reached were cut off a
\* non-empty result.
C9_Witness ==
    /\ Returned /\ maxNodes >= 2
    /\ Len(nodes) > maxNodes
    /\ Len(Uncapped(value)) > Len(nodes)
    /\ result # <<>>

(***************************************************************************)
(* C10 as stated: after initial load, whenever parseError is non-null,     *)
(* parsedValue is null.                                                    *)
(***************************************************************************)
C10_ErrorExcludesValue ==
    mounted => (parseError # Null => parsedValue = Null)

(***************************************************************************)
(* C10 as amended: right after the initial load, Visualize, Load example   *)
(* and Clear, whenever parseError is non-null, parsedValue is null; an     *)
(* error and a parsed value are present together only after a Format that  *)
(* failed to parse (and the text edits that follow it), and the error is   *)
(* then the parser's message.                                              *)
(***************************************************************************)
C10_ErrorExcludesValueButFormat ==
    (mounted /\ parseError # Null /\ parsedValue # Null) =>
        /\ lastHandler \in {"format", "edit"}
        /\ parseError # Str(RootTypeMessage)

\* Visualize has just reported an error while a value had been shown.
C10_Witness ==
    /\ mounted /\ lastHandler = "visualize"
    /\ parseError # Null /\ parsedValue = Null
    /\ handed # Undefined

====
